---- MODULE Spec2Model ----
(***************************************************************************)
(* Model of tools/scyllatop/metric.py: the Metric entity (update,          *)
(* markAbsent) and the class-level discovery (_discover, discover,         *)
(* discover_with_help), driven by a MetricSource collaborator.             *)
(*                                                                         *)
(* A Python string is a sequence of tokens (a token stands for a run of    *)
(* characters), so the empty string is <<>> and a captured group is a      *)
(* sub-sequence of the line it was captured from.                          *)
(***************************************************************************)
EXTENDS Integers, Sequences, FiniteSets, TLC

VARIABLES listing, metrics, dicts, collections, last, ncalls, reported

vars == <<listing, metrics, dicts, collections, last, ncalls, reported>>

(* ------------------------------ bounds --------------------------------- *)
MaxListing   == 2    \* lines in the output of query_list()
MaxLines     == 2    \* lines in one query_val() response, SpecMetric
MaxPollLines == 1    \* lines in one query_val() response, Spec
MaxCalls     == 3    \* calls the driver makes on the core, Spec

SeqsUpTo(S, n) == UNION {[1..k -> S] : k \in 0..n}

(* ------------------- the MetricSource collaborator --------------------- *)
\* the literal 'not available', one token
NotAvailable == <<"not available">>

\* raw value lines the source may send for a symbol
ValueLines ==
    { <<"k", "=", "5">>, <<"k", "=", "7">>, <<"j", "=", "5">>,
      <<"j", "=", "not available">>, <<"k", "5">> }

\* raw lines the source may send in its listing
ListLines ==
    { <<"m1">>, <<"m2", "h2">>, <<"#">> }

Symbols == {"m1", "m2"}

\* query_val() returns None (data = FALSE) or a finite sequence of lines
NoData == [data |-> FALSE, lines |-> <<>>]
Responses(n) ==
    {NoData} \cup {[data |-> TRUE, lines |-> ls] : ls \in SeqsUpTo(ValueLines, n)}

Listings == SeqsUpTo(ListLines, MaxListing)

NoMatch == [matched |-> FALSE, groups |-> <<>>]

\* index of the first occurrence of tok in line, 0 when there is none
IndexOf(line, tok) ==
    LET hits == {i \in 1..Len(line) : line[i] = tok}
    IN  IF hits = {} THEN 0 ELSE CHOOSE i \in hits : \A j \in hits : i <= j

\* key/value pattern ^(?P<key>[^=]+)=(?P<value>.*)$
METRIC_INFO_PATTERN(line) ==
    LET i == IndexOf(line, "=") IN
    IF i > 1
    THEN [matched |-> TRUE,
          groups  |-> [key   |-> SubSeq(line, 1, i - 1),
                       value |-> SubSeq(line, i + 1, Len(line))]]
    ELSE NoMatch

\* listing pattern: a line "<metric>[ <help text>]", '#' starting a comment
METRIC_DISCOVER_PATTERN(line) ==
    IF Len(line) >= 1 /\ line[1] \in Symbols
    THEN [matched |-> TRUE, groups |-> [metric |-> SubSeq(line, 1, 1)]]
    ELSE NoMatch

\* listing pattern with help: a line "<metric> <help text>", the help not empty
METRIC_DISCOVER_PATTERN_WITH_HELP(line) ==
    IF Len(line) >= 2 /\ line[1] \in Symbols
    THEN [matched |-> TRUE,
          groups  |-> [metric |-> SubSeq(line, 1, 1),
                       help   |-> SubSeq(line, 2, Len(line))]]
    ELSE NoMatch

(* --------------------------- Python dict ------------------------------- *)
EmptyDict == <<>>

\* d[key] = value
DictSet(d, key, value) ==
    [x \in (DOMAIN d) \cup {key} |-> IF x = key THEN value ELSE d[x]]

(* ------------------------------ Metric --------------------------------- *)
NoException == [type |-> "none", message |-> <<>>]

ParseException(message) == [type |-> "ParseException", message |-> message]

\* mutant of MetricInit: one dict shared by every Metric (a class attribute)
MetricInit_SharedDict(heap, symbol, metric_source, hlp) ==
    [metrics |-> Append(heap.metrics,
                        [symbol |-> symbol, metric_source |-> metric_source,
                         status |-> 1, help_line |-> hlp]),
     dicts   |-> IF heap.dicts = <<>> THEN <<EmptyDict>> ELSE heap.dicts]

\* mutant of MetricInit: Metrics with the same symbol share one dict
MetricInit_DictBySymbol(heap, symbol, metric_source, hlp) ==
    LET same == {m \in 1..Len(heap.metrics) : heap.metrics[m].symbol = symbol}
    IN  IF same = {}
        THEN [metrics |-> Append(heap.metrics,
                                 [symbol |-> symbol, metric_source |-> metric_source,
                                  status |-> Len(heap.dicts) + 1, help_line |-> hlp]),
              dicts   |-> Append(heap.dicts, EmptyDict)]
        ELSE [metrics |-> Append(heap.metrics,
                                 [symbol |-> symbol, metric_source |-> metric_source,
                                  status |-> heap.metrics[CHOOSE m \in same : TRUE].status,
                                  help_line |-> hlp]),
              dicts   |-> heap.dicts]

\* mutant of MetricInit: the help line is kept per symbol, not per Metric
MetricInit_HelpBySymbol(heap, symbol, metric_source, hlp) ==
    [metrics |-> Append([m \in 1..Len(heap.metrics) |->
                            IF heap.metrics[m].symbol = symbol
                            THEN [heap.metrics[m] EXCEPT !.help_line = hlp]
                            ELSE heap.metrics[m]],
                        [symbol |-> symbol, metric_source |-> metric_source,
                         status |-> Len(heap.dicts) + 1, help_line |-> hlp]),
     dicts   |-> Append(heap.dicts, EmptyDict)]

\* Metric.__init__: the object graph after constructing one more Metric,
\* which gets a dict of its own
MetricInit(heap, symbol, metric_source, hlp) ==
    [metrics |-> Append(heap.metrics,
                        [symbol |-> symbol, metric_source |-> metric_source,
                         status |-> Len(heap.dicts) + 1, help_line |-> hlp]),
     dicts   |-> Append(heap.dicts, EmptyDict)]

\* mutant of markAbsent: keys already marked are dropped
markAbsent_DropsStale(st) ==
    [key \in {k \in DOMAIN st : st[k] # NotAvailable} |-> NotAvailable]

\* mutant of markAbsent: returns after the first key
markAbsent_FirstKeyOnly(st) ==
    IF DOMAIN st = {}
    THEN st
    ELSE LET first == CHOOSE k \in DOMAIN st : TRUE
         IN  [st EXCEPT ![first] = NotAvailable]

\* mutant of markAbsent: status is replaced by an empty dict
markAbsent_Clears(st) == EmptyDict

\* mutant of markAbsent: another text than 'not available' is written
markAbsent_WrongSentinel(st) == [key \in DOMAIN st |-> <<"N/A">>]

\* Metric.markAbsent on the dict st
markAbsent(st) == [key \in DOMAIN st |-> NotAvailable]

\* mutant of UpdateLoop: a malformed line resets status before raising
RECURSIVE UpdateLoop_ClearsOnError(_, _, _)
UpdateLoop_ClearsOnError(st, lines, i) ==
    IF i > Len(lines)
    THEN [status |-> st, exc |-> NoException]
    ELSE LET match == METRIC_INFO_PATTERN(lines[i]) IN
         IF ~match.matched
         THEN [status |-> EmptyDict,
               exc    |-> ParseException(
                   <<"could not parse metric pattern from line: ">> \o lines[i])]
         ELSE UpdateLoop_ClearsOnError(
                  DictSet(st, match.groups.key, match.groups.value), lines, i + 1)

\* mutant of UpdateLoop: a key already in status keeps its value (setdefault)
RECURSIVE UpdateLoop_FirstWins(_, _, _)
UpdateLoop_FirstWins(st, lines, i) ==
    IF i > Len(lines)
    THEN [status |-> st, exc |-> NoException]
    ELSE LET match == METRIC_INFO_PATTERN(lines[i]) IN
         IF ~match.matched
         THEN [status |-> st,
               exc    |-> ParseException(
                   <<"could not parse metric pattern from line: ">> \o lines[i])]
         ELSE UpdateLoop_FirstWins(
                  IF match.groups.key \in DOMAIN st
                  THEN st
                  ELSE DictSet(st, match.groups.key, match.groups.value),
                  lines, i + 1)

\* mutant of UpdateLoop: a malformed line is skipped, as discovery skips it
RECURSIVE UpdateLoop_SkipsBadLine(_, _, _)
UpdateLoop_SkipsBadLine(st, lines, i) ==
    IF i > Len(lines)
    THEN [status |-> st, exc |-> NoException]
    ELSE LET match == METRIC_INFO_PATTERN(lines[i]) IN
         IF ~match.matched
         THEN UpdateLoop_SkipsBadLine(st, lines, i + 1)
         ELSE UpdateLoop_SkipsBadLine(
                  DictSet(st, match.groups.key, match.groups.value), lines, i + 1)

\* mutant of UpdateLoop: the error names the first line of the response
RECURSIVE UpdateLoop_ReportsFirstLine(_, _, _)
UpdateLoop_ReportsFirstLine(st, lines, i) ==
    IF i > Len(lines)
    THEN [status |-> st, exc |-> NoException]
    ELSE LET match == METRIC_INFO_PATTERN(lines[i]) IN
         IF ~match.matched
         THEN [status |-> st,
               exc    |-> ParseException(
                   <<"could not parse metric pattern from line: ">> \o lines[1])]
         ELSE UpdateLoop_ReportsFirstLine(
                  DictSet(st, match.groups.key, match.groups.value), lines, i + 1)

\* mutant of UpdateLoop: every line is validated before any is applied
RECURSIVE UpdateLoop_ValidatesFirst(_, _, _)
UpdateLoop_ValidatesFirst(st, lines, i) ==
    IF i > Len(lines)
    THEN [status |-> st, exc |-> NoException]
    ELSE IF \E j \in i..Len(lines) : ~METRIC_INFO_PATTERN(lines[j]).matched
         THEN LET bad == CHOOSE j \in i..Len(lines) :
                             /\ ~METRIC_INFO_PATTERN(lines[j]).matched
                             /\ \A h \in i..(j - 1) : METRIC_INFO_PATTERN(lines[h]).matched
              IN  [status |-> st,
                   exc    |-> ParseException(
                       <<"could not parse metric pattern from line: ">> \o lines[bad])]
         ELSE LET match == METRIC_INFO_PATTERN(lines[i])
              IN  UpdateLoop_ValidatesFirst(
                      DictSet(st, match.groups.key, match.groups.value), lines, i + 1)

\* mutant of UpdateLoop: the response replaces status instead of updating it
RECURSIVE UpdateLoop_Replaces(_, _, _)
UpdateLoop_Replaces(st, lines, i) ==
    IF i > Len(lines)
    THEN [status |-> IF i = 1 THEN EmptyDict ELSE st, exc |-> NoException]
    ELSE LET match == METRIC_INFO_PATTERN(lines[i])
             base  == IF i = 1 THEN EmptyDict ELSE st
         IN  IF ~match.matched
             THEN [status |-> base,
                   exc    |-> ParseException(
                       <<"could not parse metric pattern from line: ">> \o lines[i])]
             ELSE UpdateLoop_Replaces(
                      DictSet(base, match.groups.key, match.groups.value), lines, i + 1)

\* the loop of Metric.update from line i on: the dict it leaves and the
\* exception it ends in
RECURSIVE UpdateLoop(_, _, _)
UpdateLoop(st, lines, i) ==
    IF i > Len(lines)
    THEN [status |-> st, exc |-> NoException]
    ELSE LET match == METRIC_INFO_PATTERN(lines[i]) IN
         IF ~match.matched
         THEN [status |-> st,
               exc    |-> ParseException(
                   <<"could not parse metric pattern from line: ">> \o lines[i])]
         ELSE UpdateLoop(DictSet(st, match.groups.key, match.groups.value),
                         lines, i + 1)

\* mutant of update: no data returns without marking the metric absent
update_NoDataReturns(st, response) ==
    IF ~response.data
    THEN [status |-> st, exc |-> NoException]
    ELSE UpdateLoop(st, response.lines, 1)

\* mutant of update: no data resets status to an empty dict
update_NoDataResets(st, response) ==
    IF ~response.data
    THEN [status |-> EmptyDict, exc |-> NoException]
    ELSE UpdateLoop(st, response.lines, 1)

\* Metric.update on the dict st, given what query_val returned
update(st, response) ==
    IF ~response.data
    THEN [status |-> markAbsent(st), exc |-> NoException]
    ELSE UpdateLoop(st, response.lines, 1)

\* mutant of DiscoverLoop: the loop ends at the first line that does not match
RECURSIVE DiscoverLoop_StopsAtNoise(_, _, _, _, _)
DiscoverLoop_StopsAtNoise(heap, results, response, with_help, i) ==
    IF i > Len(response)
    THEN [heap |-> heap, results |-> results]
    ELSE LET match == IF with_help
                      THEN METRIC_DISCOVER_PATTERN_WITH_HELP(response[i])
                      ELSE METRIC_DISCOVER_PATTERN(response[i])
         IN  IF match.matched
             THEN LET hlp == IF with_help THEN match.groups.help ELSE <<>>
                      h2  == MetricInit(heap, match.groups.metric, "source", hlp)
                  IN  DiscoverLoop_StopsAtNoise(h2, Append(results, Len(h2.metrics)),
                                                response, with_help, i + 1)
             ELSE [heap |-> heap, results |-> results]

\* mutant of DiscoverLoop: a symbol already in the results is not added again
RECURSIVE DiscoverLoop_Dedup(_, _, _, _, _)
DiscoverLoop_Dedup(heap, results, response, with_help, i) ==
    IF i > Len(response)
    THEN [heap |-> heap, results |-> results]
    ELSE LET match == IF with_help
                      THEN METRIC_DISCOVER_PATTERN_WITH_HELP(response[i])
                      ELSE METRIC_DISCOVER_PATTERN(response[i])
         IN  IF /\ match.matched
                /\ \A r \in 1..Len(results) :
                       heap.metrics[results[r]].symbol # match.groups.metric
             THEN LET hlp == IF with_help THEN match.groups.help ELSE <<>>
                      h2  == MetricInit(heap, match.groups.metric, "source", hlp)
                  IN  DiscoverLoop_Dedup(h2, Append(results, Len(h2.metrics)),
                                         response, with_help, i + 1)
             ELSE DiscoverLoop_Dedup(heap, results, response, with_help, i + 1)

\* the loop of Metric._discover from line i on
RECURSIVE DiscoverLoop(_, _, _, _, _)
DiscoverLoop(heap, results, response, with_help, i) ==
    IF i > Len(response)
    THEN [heap |-> heap, results |-> results]
    ELSE LET match == IF with_help
                      THEN METRIC_DISCOVER_PATTERN_WITH_HELP(response[i])
                      ELSE METRIC_DISCOVER_PATTERN(response[i])
         IN  IF match.matched
             THEN LET hlp == IF with_help THEN match.groups.help ELSE <<>>
                      h2  == MetricInit(heap, match.groups.metric, "source", hlp)
                  IN  DiscoverLoop(h2, Append(results, Len(h2.metrics)),
                                   response, with_help, i + 1)
             ELSE DiscoverLoop(heap, results, response, with_help, i + 1)

discover_(heap, response, with_help) ==
    DiscoverLoop(heap, <<>>, response, with_help, 1)

(* ------------------ what a response reports, line by line -------------- *)
Matches(line) == METRIC_INFO_PATTERN(line).matched

KeyOf(line) == METRIC_INFO_PATTERN(line).groups.key

ValueOf(line) == METRIC_INFO_PATTERN(line).groups.value

\* index of the first line the metric-info pattern does not match, 0 if none
FirstBad(lines) ==
    LET bad == {i \in 1..Len(lines) : ~Matches(lines[i])}
    IN  IF bad = {} THEN 0 ELSE CHOOSE i \in bad : \A j \in bad : i <= j

\* the well-formed lines among the first n that carry key
Carrying(lines, n, key) ==
    {i \in 1..n : Matches(lines[i]) /\ KeyOf(lines[i]) = key}

\* the last of them
LastCarrying(lines, n, key) ==
    CHOOSE i \in Carrying(lines, n, key) : \A j \in Carrying(lines, n, key) : j <= i

\* before, overwritten by the first n lines (all well-formed), the last line
\* carrying a key deciding its value
Overwritten(before, lines, n) ==
    LET captured == [i \in 1..n |-> METRIC_INFO_PATTERN(lines[i]).groups]
        carrying(key) == {i \in 1..n : captured[i].key = key}
    IN  [key \in (DOMAIN before) \cup {captured[i].key : i \in 1..n} |->
            IF carrying(key) # {}
            THEN captured[CHOOSE i \in carrying(key) :
                              \A j \in carrying(key) : j <= i].value
            ELSE before[key]]

\* mutant of QueriesOfUpdate: no data is asked for a second time
QueriesOfUpdate_RetriesOnNoData(symbol, response) ==
    IF ~response.data
    THEN << [name |-> "query_val", arg |-> symbol], [name |-> "query_val", arg |-> symbol] >>
    ELSE << [name |-> "query_val", arg |-> symbol] >>

\* the queries Metric.update issues on its source, whatever the response
QueriesOfUpdate(symbol, response) == << [name |-> "query_val", arg |-> symbol] >>

\* the queries Metric._discover issues on its source, whatever the response
QueriesOfDiscover(response, with_help) == << [name |-> "query_list", arg |-> <<>>] >>

(* ------------------------- the state machine --------------------------- *)
\* listing     what query_list() of the source returns
\* metrics     the Metric objects, by identity
\* dicts       the dict objects, by identity; metrics[m].status refers to one
\* collections the results the discovery calls returned, oldest first
\* last        the last call on the core: what it was given, how it ended, the
\*             objects as they were before it, whether it repeats the call
\*             before it (same operation, same Metric), and the queries it
\*             issued on the source
\* ncalls      calls made so far
\* reported    history, kept under SpecMetric: per Metric, for each key some
\*             applied response line reported, the value the most recent
\*             such line captured

EmptyHeap == [metrics |-> <<>>, dicts |-> <<>>]

Heap == [metrics |-> metrics, dicts |-> dicts]

NoCall ==
    [op |-> "none", metric |-> 0, response |-> NoData, exc |-> NoException,
     before |-> EmptyHeap, repeats |-> FALSE, queries |-> <<>>]

Init ==
    /\ listing \in Listings
    /\ metrics = <<>>
    /\ dicts = <<>>
    /\ collections = <<>>
    /\ last = NoCall
    /\ ncalls = 0
    /\ reported = <<>>

\* one Metric, just constructed
InitMetric ==
    /\ listing = <<>>
    /\ LET heap == MetricInit(EmptyHeap, <<"m1">>, "source", <<>>)
       IN  metrics = heap.metrics /\ dicts = heap.dicts
    /\ collections = <<>>
    /\ last = NoCall
    /\ ncalls = 0
    /\ reported = <<EmptyDict>>

\* the lines of a response update() applies: those before the first the
\* metric-info pattern does not match
AppliedLines(response) ==
    LET bad == FirstBad(response.lines)
    IN  IF bad = 0 THEN Len(response.lines) ELSE bad - 1

\* m.update(), query_val answering with one of responses
UpdateCall(m, responses) ==
    /\ \E response \in responses :
         LET ref == metrics[m].status
             r   == update(dicts[ref], response)
         IN  /\ dicts' = [dicts EXCEPT ![ref] = r.status]
             /\ last' = [op |-> "update", metric |-> m, response |-> response,
                         exc |-> r.exc, before |-> Heap,
                         repeats |-> (last.op = "update" /\ last.metric = m),
                         queries |-> QueriesOfUpdate(metrics[m].symbol, response)]
    /\ UNCHANGED <<listing, metrics, collections>>

\* m.markAbsent()
MarkAbsentCall(m) ==
    /\ LET ref == metrics[m].status
       IN  dicts' = [dicts EXCEPT ![ref] = markAbsent(dicts[ref])]
    /\ last' = [op |-> "markAbsent", metric |-> m, response |-> NoData,
                exc |-> NoException, before |-> Heap,
                repeats |-> (last.op = "markAbsent" /\ last.metric = m),
                queries |-> <<>>]
    /\ UNCHANGED <<listing, metrics, collections>>

\* Metric.discover(source) or Metric.discover_with_help(source)
DiscoverCall(with_help) ==
    /\ LET r  == discover_(Heap, listing, with_help)
           op == IF with_help THEN "discover_with_help" ELSE "discover"
       IN  /\ metrics' = r.heap.metrics
           /\ dicts' = r.heap.dicts
           /\ collections' =
                  Append(collections, [with_help |-> with_help, metrics |-> r.results])
           /\ last' = [op |-> op, metric |-> 0, response |-> NoData,
                       exc |-> NoException, before |-> Heap,
                       repeats |-> (last.op = op),
                       queries |-> QueriesOfDiscover(listing, with_help)]
    /\ UNCHANGED listing

Counted(call) ==
    ncalls < MaxCalls /\ call /\ ncalls' = ncalls + 1 /\ UNCHANGED reported

discover == Counted(DiscoverCall(FALSE))

discover_with_help == Counted(DiscoverCall(TRUE))

Update(m) == Counted(UpdateCall(m, Responses(MaxPollLines)))

MarkAbsent(m) == Counted(MarkAbsentCall(m))

Next ==
    \/ discover
    \/ discover_with_help
    \/ \E m \in 1..Len(metrics) : Update(m)
    \/ \E m \in 1..Len(metrics) : MarkAbsent(m)

\* a driver that discovers and polls, MaxCalls calls in all
Spec == Init /\ [][Next]_vars

\* the history after the update() that last' records
Recorded ==
    reported' = [reported EXCEPT ![last'.metric] =
                    Overwritten(@, last'.response.lines, AppliedLines(last'.response))]

MetricUpdate == UpdateCall(1, Responses(MaxLines)) /\ Recorded /\ UNCHANGED ncalls

MetricMarkAbsent == MarkAbsentCall(1) /\ UNCHANGED <<ncalls, reported>>

NextMetric == MetricUpdate \/ MetricMarkAbsent

\* one Metric polled for ever
SpecMetric == InitMetric /\ [][NextMetric]_vars

TypeOK ==
    /\ ncalls \in 0..MaxCalls
    /\ \A m \in 1..Len(metrics) : metrics[m].status \in 1..Len(dicts)

(* ----------------------- reading the last call ------------------------- *)
\* m.status now, and as it was before the last call
Status(m) == dicts[metrics[m].status]

StatusBefore(m) == last.before.dicts[last.before.metrics[m].status]

Polled == last.op \in {"update", "markAbsent"}

Discovered == last.op \in {"discover", "discover_with_help"}

(* ------------------------------ claims --------------------------------- *)
\* C1: across update() calls (data, no data, failing on a malformed line)
\* and markAbsent() calls, the key set of status never shrinks: every key
\* present before a call is still present after it.
C1_KeysNeverShrink ==
    Polled => (DOMAIN StatusBefore(last.metric)) \subseteq (DOMAIN Status(last.metric))

\* markAbsent() on a status with two keys, one of them marked already
C1_Witness ==
    /\ last.op = "markAbsent"
    /\ Cardinality(DOMAIN StatusBefore(last.metric)) = 2
    /\ \E key \in DOMAIN StatusBefore(last.metric) :
           StatusBefore(last.metric)[key] = NotAvailable

\* C2 as stated: if any line of the response fails to match, update() fails
\* and status is exactly what it was before the call, whatever well-formed
\* lines preceded the malformed one.
C2_FailedUpdateIsAtomic ==
    (last.op = "update" /\ FirstBad(last.response.lines) # 0)
        => /\ last.exc.type = "ParseException"
           /\ Status(last.metric) = StatusBefore(last.metric)

\* C2 as amended: if a line of the response fails to match, update() fails;
\* status is exactly what it was before the call when the malformed line is
\* the first of the response, and otherwise every key holds either the value
\* it had before the call or a value assigned by one of the well-formed
\* lines that preceded the malformed one.
C2_FailedUpdateKeepsPrefix ==
    (last.op = "update" /\ FirstBad(last.response.lines) # 0)
        => LET lines == last.response.lines
               bad   == FirstBad(lines)
               now   == Status(last.metric)
               was   == StatusBefore(last.metric)
           IN  /\ last.exc.type = "ParseException"
               /\ bad = 1 => now = was
               /\ \A key \in DOMAIN now :
                      \/ key \in DOMAIN was /\ now[key] = was[key]
                      \/ \E i \in 1..(bad - 1) :
                             KeyOf(lines[i]) = key /\ ValueOf(lines[i]) = now[key]

\* update() failed on the second line after the first changed status
C2_Witness ==
    /\ last.op = "update"
    /\ FirstBad(last.response.lines) = 2
    /\ last.exc.type = "ParseException"
    /\ Status(last.metric) # StatusBefore(last.metric)

\* C3: when query_val returns the no-data sentinel, update() completes
\* without an error and has the effect of markAbsent(): the key set of
\* status is unchanged and every value is "not available"; a Fresh metric
\* with empty status stays empty.
C3_NoDataMarksAbsent ==
    (last.op = "update" /\ ~last.response.data)
        => LET now == Status(last.metric)
               was == StatusBefore(last.metric)
           IN  /\ last.exc = NoException
               /\ DOMAIN now = DOMAIN was
               /\ \A key \in DOMAIN now : now[key] = NotAvailable
               /\ was = EmptyDict => now = EmptyDict

\* a populated metric polled with no data
C3_Witness ==
    /\ last.op = "update"
    /\ ~last.response.data
    /\ \E key \in DOMAIN StatusBefore(last.metric) :
           StatusBefore(last.metric)[key] # NotAvailable

\* C4: immediately after markAbsent() returns, from any reachable status,
\* every value in status equals the literal "not available".
C4_MarkAbsentAllSentinel ==
    last.op = "markAbsent"
        => \A key \in DOMAIN Status(last.metric) :
               Status(last.metric)[key] = NotAvailable

\* markAbsent() on a status with two keys holding real values
C4_Witness ==
    /\ last.op = "markAbsent"
    /\ Cardinality(DOMAIN StatusBefore(last.metric)) = 2
    /\ \A key \in DOMAIN StatusBefore(last.metric) :
           StatusBefore(last.metric)[key] # NotAvailable

\* C5: when every line of the response matches, update() succeeds and, for
\* every key captured in the response, status[key] is the value captured by
\* the last line carrying that key; on a Fresh metric status is exactly the
\* mapping key -> value the response gives.
C5_UpdateAppliesResponse ==
    (last.op = "update" /\ last.response.data /\ FirstBad(last.response.lines) = 0)
        => LET lines == last.response.lines
               n     == Len(lines)
               now   == Status(last.metric)
               was   == StatusBefore(last.metric)
           IN  /\ last.exc = NoException
               /\ \A i \in 1..n :
                      /\ KeyOf(lines[i]) \in DOMAIN now
                      /\ now[KeyOf(lines[i])] =
                             ValueOf(lines[LastCarrying(lines, n, KeyOf(lines[i]))])
               /\ was = EmptyDict
                      => DOMAIN now = {KeyOf(lines[i]) : i \in 1..n}

\* a key reported twice in one response, over a value it already had
C5_Witness ==
    /\ last.op = "update"
    /\ last.response = [data |-> TRUE, lines |-> << <<"k", "=", "5">>, <<"k", "=", "7">> >>]
    /\ <<"k">> \in DOMAIN StatusBefore(last.metric)
    /\ Status(last.metric)[<<"k">>] = <<"7">>

\* C6: when a line of the response does not match, update() ends in a
\* parse error propagated to the caller, no line after the offending one is
\* processed or applied to status (status is what the lines before it made
\* of it), and when the response is that single malformed line status is
\* unchanged.
C6_ParseErrorStopsUpdate ==
    (last.op = "update" /\ FirstBad(last.response.lines) # 0)
        => LET lines == last.response.lines
               bad   == FirstBad(lines)
           IN  /\ last.exc.type = "ParseException"
               /\ Status(last.metric) =
                      Overwritten(StatusBefore(last.metric), lines, bad - 1)
               /\ Len(lines) = 1 => Status(last.metric) = StatusBefore(last.metric)

\* a malformed line followed by a well-formed one whose key status lacks
C6_Witness ==
    /\ last.op = "update"
    /\ Len(last.response.lines) = 2
    /\ FirstBad(last.response.lines) = 1
    /\ Matches(last.response.lines[2])
    /\ KeyOf(last.response.lines[2]) \notin DOMAIN Status(last.metric)
    /\ last.exc.type = "ParseException"

\* C10: markAbsent() is idempotent: calling it twice in a row yields the
\* same status as calling it once.
C10_MarkAbsentIdempotent ==
    (last.op = "markAbsent" /\ last.repeats)
        => Status(last.metric) = StatusBefore(last.metric)

\* markAbsent() called twice in a row on a status with keys
C10_Witness ==
    /\ last.op = "markAbsent"
    /\ last.repeats
    /\ Status(last.metric) # EmptyDict

(* --------------------------- discovery claims -------------------------- *)
\* the pattern discovery applies in each mode
DiscoverPattern(with_help, line) ==
    IF with_help
    THEN METRIC_DISCOVER_PATTERN_WITH_HELP(line)
    ELSE METRIC_DISCOVER_PATTERN(line)

\* the lines of the listing the mode's pattern matches, in order
Matching(with_help) ==
    SelectSeq(listing, LAMBDA line : DiscoverPattern(with_help, line).matched)

\* the positions of the listing where a well-formed line names symbol
LinesFor(with_help, symbol) ==
    {i \in 1..Len(listing) :
        /\ DiscoverPattern(with_help, listing[i]).matched
        /\ DiscoverPattern(with_help, listing[i]).groups.metric = symbol}

\* what the last discovery returned
LastResult == collections[Len(collections)]

SymbolsOf(collection) ==
    [i \in 1..Len(collection.metrics) |-> metrics[collection.metrics[i]].symbol]

\* C7: discover() and discover_with_help() never fail on a listing line
\* that does not match and produce no Metric for it; the result holds
\* exactly one Metric per matching line, in the order of the matching
\* lines, with no deduplication (each a new instance).
C7_DiscoverySkipsNoise ==
    Discovered
        => LET res   == LastResult.metrics
               wh    == LastResult.with_help
               lines == Matching(wh)
           IN  /\ last.exc = NoException
               /\ wh = (last.op = "discover_with_help")
               /\ Len(res) = Len(lines)
               /\ \A i \in 1..Len(res) :
                      /\ metrics[res[i]].symbol = DiscoverPattern(wh, lines[i]).groups.metric
                      /\ res[i] > Len(last.before.metrics)
                      /\ \A j \in 1..Len(res) : i # j => res[i] # res[j]

\* a line that does not match, then one that does: one Metric
C7_Witness ==
    /\ Discovered
    /\ Len(listing) = 2
    /\ ~DiscoverPattern(LastResult.with_help, listing[1]).matched
    /\ DiscoverPattern(LastResult.with_help, listing[2]).matched
    /\ Len(LastResult.metrics) = 1

\* C8 as stated: for a listing containing a well-formed line for symbol s,
\* discover() yields exactly one Metric with symbol s and help "" (every
\* Metric from discover() has empty help), and discover_with_help() yields
\* one Metric with symbol s whose help is the help captured from that line.
C8_OneMetricPerSymbol ==
    Discovered
        => LET res == LastResult.metrics
               wh  == LastResult.with_help
           IN  /\ ~wh => \A r \in 1..Len(res) : metrics[res[r]].help_line = <<>>
               /\ \A i \in 1..Len(listing) :
                      DiscoverPattern(wh, listing[i]).matched
                          => LET g == DiscoverPattern(wh, listing[i]).groups
                                 same == {r \in 1..Len(res) :
                                             metrics[res[r]].symbol = g.metric}
                             IN  /\ Cardinality(same) = 1
                                 /\ \E r \in same :
                                        metrics[res[r]].help_line =
                                            IF wh THEN g.help ELSE <<>>

\* C8 as amended: for a listing containing well-formed lines for symbol s,
\* discover() yields exactly one Metric with symbol s per such line (one when
\* s is listed once), each with help "" (every Metric from discover() has
\* empty help), and discover_with_help() yields one Metric with symbol s per
\* such line, whose help is the help captured from that line.
C8_OneMetricPerLine ==
    Discovered
        => LET res == LastResult.metrics
               wh  == LastResult.with_help
           IN  /\ ~wh => \A r \in 1..Len(res) : metrics[res[r]].help_line = <<>>
               /\ \A i \in 1..Len(listing) :
                      DiscoverPattern(wh, listing[i]).matched
                          => LET g == DiscoverPattern(wh, listing[i]).groups
                                 same == {r \in 1..Len(res) :
                                             metrics[res[r]].symbol = g.metric}
                             IN  /\ Cardinality(same) =
                                        Cardinality(LinesFor(wh, g.metric))
                                 /\ \E r \in same :
                                        metrics[res[r]].help_line =
                                            IF wh THEN g.help ELSE <<>>

\* discover_with_help() on a listing naming one symbol twice, with its help
C8_Witness ==
    /\ last.op = "discover_with_help"
    /\ Len(LastResult.metrics) = 2
    /\ \A r \in 1..2 :
           /\ metrics[LastResult.metrics[r]].symbol = <<"m2">>
           /\ metrics[LastResult.metrics[r]].help_line = <<"h2">>

\* C9: discovering twice from an unchanged listing gives two collections
\* with identical symbol sequences, every Metric having empty status at
\* creation, and the collections are independent: an update() or
\* markAbsent() on a Metric of one collection, before or after the second
\* discovery, leaves every status of the other collection unchanged.
C9_RediscoveryIsFresh ==
    /\ \A c, d \in 1..Len(collections) :
           collections[c].with_help = collections[d].with_help
               => SymbolsOf(collections[c]) = SymbolsOf(collections[d])
    /\ Discovered
           => \A r \in 1..Len(LastResult.metrics) :
                  Status(LastResult.metrics[r]) = EmptyDict
    /\ Polled
           => \A c, d \in 1..Len(collections) :
                  (/\ c # d
                   /\ \E r \in 1..Len(collections[c].metrics) :
                          collections[c].metrics[r] = last.metric)
                      => \A r \in 1..Len(collections[d].metrics) :
                             Status(collections[d].metrics[r]) =
                                 StatusBefore(collections[d].metrics[r])

\* two discoveries in the same mode, then an update() that changed a status
\* of the first collection
C9_Witness ==
    /\ Len(collections) = 2
    /\ collections[1].with_help = collections[2].with_help
    /\ Len(collections[2].metrics) > 0
    /\ last.op = "update"
    /\ \E r \in 1..Len(collections[1].metrics) : collections[1].metrics[r] = last.metric
    /\ Status(last.metric) # StatusBefore(last.metric)

(* ----------------------- the Metric state machine ---------------------- *)
\* the conceptual states of a Metric, read off its status
Fresh(st) == st = EmptyDict

Populated(st) == \E key \in DOMAIN st : st[key] # NotAvailable

Absent(st) == \A key \in DOMAIN st : st[key] = NotAvailable

\* the response ends some key on a value other than 'not available'
ReportsRealValue(lines) ==
    \E i \in 1..Len(lines) :
        ValueOf(lines[LastCarrying(lines, Len(lines), KeyOf(lines[i]))]) # NotAvailable

\* whether the sequence part occurs in the sequence whole
Contains(whole, part) ==
    \E i \in 0..(Len(whole) - Len(part)) : SubSeq(whole, i + 1, i + Len(part)) = part

\* C11: markAbsent() changes only values: the key set of status after the
\* call equals the key set before it, and on an empty status it changes
\* nothing.
C11_MarkAbsentKeepsKeys ==
    last.op = "markAbsent"
        => /\ DOMAIN Status(last.metric) = DOMAIN StatusBefore(last.metric)
           /\ StatusBefore(last.metric) = EmptyDict => Status(last.metric) = EmptyDict

\* markAbsent() changed the value of the one key of a status
C11_Witness ==
    /\ last.op = "markAbsent"
    /\ Cardinality(DOMAIN StatusBefore(last.metric)) = 1
    /\ Status(last.metric) # StatusBefore(last.metric)

C13_ErrorNamesLineAndSymbol ==
    (last.op = "update" /\ last.exc.type = "ParseException")
        => /\ Contains(last.exc.message,
                       last.response.lines[FirstBad(last.response.lines)])
           /\ Contains(last.exc.message, metrics[last.metric].symbol)

\* C13 as amended: the parse error update() produces on a malformed line
\* identifies the offending raw line only: its message is the fixed text
\* 'could not parse metric pattern from line: ' followed by that line, and
\* the symbol of the metric being updated is not added to it.
C13_ErrorNamesLine ==
    (last.op = "update" /\ last.exc.type = "ParseException")
        => LET bad == last.response.lines[FirstBad(last.response.lines)]
           IN  last.exc.message =
                   <<"could not parse metric pattern from line: ">> \o bad

\* a parse error on the second line of a response
C13_Witness ==
    /\ last.op = "update"
    /\ last.exc.type = "ParseException"
    /\ FirstBad(last.response.lines) = 2
    /\ last.response.lines[1] # last.response.lines[2]

\* C14: no partial mutation is rolled back: when update() fails on a
\* malformed line, the assignments from every well-formed line that
\* preceded it in the same response remain applied in status.
C14_NoRollback ==
    (last.op = "update" /\ last.exc.type = "ParseException")
        => LET lines == last.response.lines
               bad   == FirstBad(lines)
               now   == Status(last.metric)
           IN  \A i \in 1..(bad - 1) :
                   /\ KeyOf(lines[i]) \in DOMAIN now
                   /\ now[KeyOf(lines[i])] =
                          ValueOf(lines[LastCarrying(lines, bad - 1, KeyOf(lines[i]))])

\* update() failed after a line that gave status a key it did not have
C14_Witness ==
    /\ last.op = "update"
    /\ last.exc.type = "ParseException"
    /\ FirstBad(last.response.lines) = 2
    /\ KeyOf(last.response.lines[1]) \notin DOMAIN StatusBefore(last.metric)
    /\ KeyOf(last.response.lines[1]) \in DOMAIN Status(last.metric)

\* C16: a successful update() with data changes only the keys captured in
\* the response: every key already in status that the response does not
\* report keeps exactly its previous value (a stale real value or "not
\* available").
C16_UnreportedKeysKept ==
    (last.op = "update" /\ last.response.data /\ last.exc = NoException)
        => LET lines == last.response.lines
               now   == Status(last.metric)
               was   == StatusBefore(last.metric)
           IN  \A key \in DOMAIN was :
                   Carrying(lines, Len(lines), key) = {}
                       => (key \in DOMAIN now /\ now[key] = was[key])

\* after a successful update() status mixes a fresh value and a sentinel
C16_Witness ==
    /\ last.op = "update"
    /\ last.response = [data |-> TRUE, lines |-> << <<"k", "=", "7">> >>]
    /\ last.exc = NoException
    /\ <<"j">> \in DOMAIN StatusBefore(last.metric)
    /\ StatusBefore(last.metric)[<<"j">>] = NotAvailable
    /\ Status(last.metric) = (<<"k">> :> <<"7">>) @@ (<<"j">> :> NotAvailable)

(* ------------------------ claims on many Metrics ----------------------- *)
\* C15: each Metric owns its status exclusively: under any interleaving of
\* update() and markAbsent() calls on distinct Metric instances sharing one
\* source (instances with the same symbol included), a call on one instance
\* never changes the status of any other instance.
C15_StatusOwnedExclusively ==
    /\ \A m, n \in 1..Len(metrics) : m # n => metrics[m].status # metrics[n].status
    /\ Polled
           => \A m \in 1..Len(metrics) :
                  m # last.metric => Status(m) = StatusBefore(m)

\* an update() changed the status of one of two Metrics with the same symbol
C15_Witness ==
    /\ last.op = "update"
    /\ Status(last.metric) # StatusBefore(last.metric)
    /\ \E m \in 1..Len(metrics) :
           /\ m # last.metric
           /\ metrics[m].symbol = metrics[last.metric].symbol
           /\ Status(m) # Status(last.metric)

\* C18: each update() call issues exactly one query_val(symbol) on the
\* source and each discover() or discover_with_help() call exactly one
\* query_list(), whatever the outcome (data, no data, malformed line): no
\* query is retried.
C18_OneQueryPerCall ==
    /\ last.op = "update"
           => last.queries =
                  << [name |-> "query_val", arg |-> metrics[last.metric].symbol] >>
    /\ Discovered
           => last.queries = << [name |-> "query_list", arg |-> <<>>] >>

\* an update() that ended in a parse error after its one query
C18_Witness ==
    /\ last.op = "update"
    /\ last.exc.type = "ParseException"
    /\ Len(last.queries) = 1

\* C19: the symbol and help of a Metric are fixed at construction: no
\* update() (successful, no-data or failing), markAbsent() or later
\* discovery changes the symbol or help of an existing Metric.
C19_SymbolAndHelpFixed ==
    (Polled \/ Discovered)
        => /\ Len(metrics) >= Len(last.before.metrics)
           /\ \A m \in 1..Len(last.before.metrics) :
                  /\ metrics[m].symbol = last.before.metrics[m].symbol
                  /\ metrics[m].help_line = last.before.metrics[m].help_line

\* a discovery without help after one with help, whose Metric keeps its help
C19_Witness ==
    /\ last.op = "discover"
    /\ Len(LastResult.metrics) > 0
    /\ \E m \in 1..Len(last.before.metrics) :
           /\ metrics[m].help_line = <<"h2">>
           /\ metrics[m].symbol = metrics[LastResult.metrics[1]].symbol

(* ------------------------- the history of a status --------------------- *)
\* C17: in every reachable state of a Metric, after any sequence of
\* update() and markAbsent() calls, each key in status was captured from
\* some line of an earlier query_val response for this metric, and its value
\* is either "not available" or the value captured for that key by the most
\* recent response line that reported it and was applied.
C17_StatusComesFromResponses ==
    \A m \in 1..Len(metrics) :
        /\ (DOMAIN Status(m)) \subseteq (DOMAIN reported[m])
        /\ \A key \in DOMAIN Status(m) :
               \/ Status(m)[key] = NotAvailable
               \/ Status(m)[key] = reported[m][key]

\* a status holding a sentinel over a reported real value beside the value
\* the last update() reported
C17_Witness ==
    /\ last.op = "update"
    /\ last.exc = NoException
    /\ \E key \in DOMAIN Status(last.metric) :
           /\ Status(last.metric)[key] = NotAvailable
           /\ reported[last.metric][key] # NotAvailable
    /\ \E key \in DOMAIN Status(last.metric) :
           /\ Status(last.metric)[key] # NotAvailable
           /\ Carrying(last.response.lines, Len(last.response.lines), key) # {}
====
